---- MODULE Spec2Model ----
(***************************************************************************)
(* A model of log-processor/app.py: IPProcessor (extraction of IPv4        *)
(* addresses from log lines, private/public classification, within-file    *)
(* de-duplication, insert-if-absent into two MongoDB collections with a    *)
(* unique index on "ip", statistics) and main() (connect, scan, report,    *)
(* close).                                                                 *)
(*                                                                         *)
(* Text is modelled structurally.  A decimal group is a sequence of digits *)
(* (<<1,9,2>> is "192"), a word is a sequence of groups joined by dots     *)
(* (<<<<8>>,<<8>>,<<8>>,<<8>>>> is "8.8.8.8"), a line is a sequence of     *)
(* words separated by non-word, non-dot text, and a file is a sequence of  *)
(* lines.  An address string, as the program handles it, is a word of four *)
(* groups.                                                                 *)
(***************************************************************************)
EXTENDS Integers, Sequences, FiniteSets, Bags, TLC

\* ------------------------------------------------------------------ bounds
\* Number of runs of main() that a multi-run specification launches.
NumScans == 2
\* Largest number of lines in a scanned file (specification Spec).
MaxLines == 2
\* Largest number of words in a scanned file, over all its lines (Spec).
MaxWords == 3

Procs == 1..NumScans

\* ------------------------------------------------------------ text helpers
\* str(n): the decimal digit string of a natural number.
RECURSIVE str(_)
str(n) ==
    IF n < 10 THEN <<n>> ELSE Append(str(n \div 10), n % 10)

\* The dotted string of four octet values.
Dotted(a, b, c, d) == <<str(a), str(b), str(c), str(d)>>

\* The value of the first n digits of a digit string.
RECURSIVE IntOfPrefix(_, _)
IntOfPrefix(octet_str, n) ==
    IF n = 0 THEN 0 ELSE IntOfPrefix(octet_str, n - 1) * 10 + octet_str[n]

\* int(octet_str, 10): the value of a digit string.
int(octet_str) == IntOfPrefix(octet_str, Len(octet_str))

\* ---------------------------------------------------- IPv4Address parsing
\* Largest value ipaddress accepts for one octet.
MaxOctet == 255

\* ipaddress.IPv4Address._parse_octet without and with a plausible slip: the
\* range test left out.
parse_octet_no_range(octet_str) ==
    /\ Len(octet_str) >= 1
    /\ Len(octet_str) <= 3
    /\ ~(octet_str # <<0>> /\ octet_str[1] = 0)

\* ipaddress.IPv4Address._parse_octet: TRUE iff the group parses (non-empty,
\* at most three digits, no leading zero unless it is "0", value <= 255).
parse_octet(octet_str) ==
    /\ Len(octet_str) >= 1
    /\ Len(octet_str) <= 3
    /\ ~(octet_str # <<0>> /\ octet_str[1] = 0)
    /\ int(octet_str) <= MaxOctet

\* is_valid_ip: IPv4Address(ip_str) raises no AddressValueError.
is_valid_ip(ip_str) ==
    /\ Len(ip_str) = 4
    /\ \A i \in 1..4 : parse_octet(ip_str[i])

\* ------------------------------------------------------------ private ranges
\* An IPv4Network as its network address (four octet values) and prefix length.
Net10 == [address |-> <<10, 0, 0, 0>>, prefixlen |-> 8]
Net172 == [address |-> <<172, 16, 0, 0>>, prefixlen |-> 12]
Net192 == [address |-> <<192, 168, 0, 0>>, prefixlen |-> 16]

\* A slip in the second range: 172.16.0.0/16 in place of 172.16.0.0/12.
private_ranges_slash16 == <<Net10, [address |-> <<172, 16, 0, 0>>, prefixlen |-> 16], Net192>>

\* A slip in the list: the third range left out.
private_ranges_no192 == <<Net10, Net172>>

\* self.private_ranges
private_ranges == <<Net10, Net172, Net192>>

\* 2^n
RECURSIVE Pow2(_)
Pow2(n) ==
    IF n = 0 THEN 1 ELSE 2 * Pow2(n - 1)

\* The 32-bit integer of an address as its high and low 16-bit halves (the
\* halves keep every intermediate value below 2^31).
Hi16(octets) == octets[1] * 256 + octets[2]
Lo16(octets) == octets[3] * 256 + octets[4]

\* x with its low `bits` bits cleared (x & mask).
ClearLow(x, bits) == (x \div Pow2(bits)) * Pow2(bits)

\* IPv4Address in IPv4Network: ip & netmask == network_address.
InNetwork(octets, network) ==
    LET hostbits == 32 - network.prefixlen
        hi == IF hostbits >= 16 THEN ClearLow(Hi16(octets), hostbits - 16)
              ELSE Hi16(octets)
        lo == IF hostbits >= 16 THEN 0 ELSE ClearLow(Lo16(octets), hostbits)
    IN  /\ hi = Hi16(network.address)
        /\ lo = Lo16(network.address)

\* The octet values of a valid address string.
Octets(ip_str) == [i \in 1..4 |-> int(ip_str[i])]

\* is_private_ip: any(ip in network for network in self.private_ranges);
\* False when the string is no valid address.
is_private_ip(ip_str) ==
    IF ~is_valid_ip(ip_str) THEN FALSE
    ELSE \E k \in 1..Len(private_ranges) :
            InNetwork(Octets(ip_str), private_ranges[k])

\* --------------------------------------------------------------- extraction
\* ip_pattern.findall on one word, from group i on: the leftmost run of four
\* consecutive groups of one to three digits each is a match, and the search
\* resumes after it; a group of more than three digits can neither start nor
\* end a match (no word boundary inside it).
RECURSIVE match_from(_, _)
match_from(word, i) ==
    IF i + 3 > Len(word) THEN <<>>
    ELSE IF \A k \in i..(i + 3) : Len(word[k]) \in 1..3
         THEN <<SubSeq(word, i, i + 3)>> \o match_from(word, i + 4)
         ELSE match_from(word, i + 1)

\* ip_pattern.findall(line): the candidates of a line, in order.
RECURSIVE findall(_)
findall(line) ==
    IF line = <<>> THEN <<>>
    ELSE match_from(Head(line), 1) \o findall(Tail(line))

\* The filter loop of extract_ips_from_line.
RECURSIVE valid_ips(_)
valid_ips(potential_ips) ==
    IF potential_ips = <<>> THEN <<>>
    ELSE (IF is_valid_ip(Head(potential_ips)) THEN <<Head(potential_ips)>> ELSE <<>>)
         \o valid_ips(Tail(potential_ips))

\* extract_ips_from_line
extract_ips_from_line(line) == valid_ips(findall(line))

\* ------------------------------------------------------------------ inputs
\* The words log lines are made of: a private address, a public address, a
\* candidate with an octet above 255 and a candidate with a leading zero
\* ("192.168.01.10").
IPPrivate == Dotted(192, 168, 1, 10)
IPPublic == Dotted(8, 8, 8, 8)
IPBad == Dotted(999, 1, 1, 1)
IPLeadingZero == <<str(192), str(168), <<0, 1>>, str(10)>>
ScanWords == {IPPrivate, IPPublic, IPBad, IPLeadingZero}

\* The address strings a scan can hand to the store.
ScanIPs == {IPPrivate, IPPublic}

\* All lines of at most k words.
LinesUpTo(k) == UNION {[1..n -> ScanWords] : n \in 0..k}

\* All files of at most l lines and at most k words in all.
RECURSIVE FilesWith(_, _)
FilesWith(l, k) ==
    IF l = 0 THEN {<<>>}
    ELSE {<<>>} \cup
         UNION {{<<line>> \o rest : rest \in FilesWith(l - 1, k - Len(line))} :
                line \in LinesUpTo(k)}

Files == FilesWith(MaxLines, MaxWords)

\* The files the sequential runs scan: one line of one or two words.
SeqFiles == {<<line>> : line \in [1..1 -> ScanWords] \cup [1..2 -> ScanWords]}

\* The files the concurrent runs scan: one line, an address twice or two addresses.
ConcFiles == {<< <<IPPrivate, IPPrivate>> >>, << <<IPPrivate, IPPublic>> >>}

\* ------------------------------------------------------------------- state
VARIABLES
    pc,             \* [Procs -> control point of main(): "absent" (no such run),
                    \*  "waiting", "idle", "process", "read", "ip", "update_find",
                    \*  "update_insert", "count", "report", "exited"]
    file,           \* [Procs -> the log file at LOG_FILE_PATH]
    line_num,       \* [Procs -> lines read so far (enumerate(file, 1))]
    ips_in_line,    \* [Procs -> extract_ips_from_line of the current line]
    ip_idx,         \* [Procs -> addresses of ips_in_line the inner for loop has taken]
    stats,          \* [Procs -> self.stats]
    processed_ips,  \* [Procs -> the scan-local set processed_ips]
    cur,            \* [Procs -> arguments and result of the store call under way]
    client,         \* [Procs -> self.client: "None", "open" or "closed"]
    db,             \* ip_database: collection name -> bag of documents (shared)
    exit_code,      \* [Procs -> process exit status, -1 while running]
    path,           \* [Procs -> the way main() left its try block]
    store_calls,    \* [Procs -> [address -> calls of store_ip_in_mongodb]]
    dup_by_ip,      \* [Procs -> [address -> within-file duplicates counted for it]]
    result_log,     \* [Procs -> [address -> outcome of its store call]]
    close_calls,    \* [Procs -> calls of close_connection]
    statistics_out, \* [Procs -> the reports print_statistics emitted]
    db0,            \* ip_database as it was before the first run started
    call            \* the function application of the pure-function specification

vars == <<pc, file, line_num, ips_in_line, ip_idx, stats, processed_ips, cur, client, db,
          exit_code, path, store_calls, dup_by_ip, result_log, close_calls,
          statistics_out, db0, call>>

scan_vars == <<pc, file, line_num, ips_in_line, ip_idx, stats, processed_ips, cur, client, db,
          exit_code, path, store_calls, dup_by_ip, result_log, close_calls,
          statistics_out, db0>>

\* self.stats as __init__ leaves it.
InitialStats ==
    [total_lines_processed |-> 0,
     total_ips_found |-> 0,
     unique_public_ips_stored |-> 0,
     unique_private_ips_stored |-> 0,
     duplicate_ips_skipped |-> 0,
     within_file_duplicates |-> 0]

NoCall == [ip |-> <<>>, is_private |-> FALSE, success |-> FALSE]

\* An entry of result_log: what store_ip_in_mongodb returned and why.
NoResult == [returned |-> FALSE, outcome |-> "none"]

\* ------------------------------------------------------------------- store
\* The document store_ip_in_mongodb builds.
Document(ip, is_private) ==
    [ip |-> ip, type |-> IF is_private THEN "private" ELSE "public", first_seen |-> "None"]

\* A slip in the choice of collection: the two branches exchanged.
CollectionSwapped(is_private) == IF is_private THEN "public_ips" ELSE "private_ips"

\* collection = self.private_ips_collection if is_private else self.public_ips_collection
Collection(is_private) == IF is_private THEN "private_ips" ELSE "public_ips"

\* A slip in connect_to_mongodb: the indexes created without unique=True.
IndexNotUnique == FALSE

\* create_index("ip", unique=True) on both collections.
UniqueIndex == TRUE

\* A slip in the filter of update_one: it names a field no document has.
MatchesNothing(collection, ip) == FALSE

\* The filter {"ip": ip} matches a document of the collection.
Matches(collection, ip) == \E d \in BagToSet(collection) : d.ip = ip

\* The index on "ip" holds the key of a document about to be inserted.
HasKey(collection, ip) == \E d \in BagToSet(collection) : d.ip = ip

\* The number of documents of a collection with the given ip.
CountOf(collection, ip) ==
    LET S == {d \in BagToSet(collection) : d.ip = ip}
        RECURSIVE Sum(_)
        Sum(T) == IF T = {} THEN 0
                  ELSE LET d == CHOOSE x \in T : TRUE
                       IN  CopiesIn(d, collection) + Sum(T \ {d})
    IN  Sum(S)

\* count_documents({})
count_documents(collection) == BagCardinality(collection)

\* The stores earlier runs can have left: each address at most once, in the
\* collection of its classification.
StoreOf(S) ==
    [public_ips |-> SetToBag({Document(ip, FALSE) : ip \in {x \in S : ~is_private_ip(x)}}),
     private_ips |-> SetToBag({Document(ip, TRUE) : ip \in {x \in S : is_private_ip(x)}})]

\* ------------------------------------------------------------- statistics
\* A slip in a counter update: "-= 1" in place of "+= 1".
BumpBackwards(st, key) == [st EXCEPT ![key] = @ - 1]

\* self.stats[key] += 1
Bump(st, key) == [st EXCEPT ![key] = @ + 1]

\* A slip in the outcome branch: the else branch left out.
CountOutcomeNoElse(st, success, is_private) ==
    IF success
    THEN IF is_private THEN Bump(st, "unique_private_ips_stored")
         ELSE Bump(st, "unique_public_ips_stored")
    ELSE st

\* A slip in the outcome branch: the test is on "success is not None", which
\* every return passes.
CountOutcomeAlwaysNew(st, success, is_private) ==
    IF is_private THEN Bump(st, "unique_private_ips_stored")
    ELSE Bump(st, "unique_public_ips_stored")

\* The if/else on success in process_log_file: a True return is counted as a
\* new private or public address, a False return (the address was already
\* stored, or the store call raised) as duplicate_ips_skipped.
CountOutcome(st, success, is_private) ==
    IF success
    THEN IF is_private THEN Bump(st, "unique_private_ips_stored")
         ELSE Bump(st, "unique_public_ips_stored")
    ELSE Bump(st, "duplicate_ips_skipped")

\* A slip in the dedup step: the address is not added to processed_ips.
MarkSeenForgotten(seen, ip) == seen

\* processed_ips.add(ip)
MarkSeen(seen, ip) == seen \cup {ip}

\* -------------------------------------------------------------------- Init
NoPureCall == [fn |-> "none", done |-> TRUE]

InitScan(files, store, pcs) ==
    /\ pc = pcs
    /\ file = files
    /\ line_num = [p \in Procs |-> 0]
    /\ ips_in_line = [p \in Procs |-> <<>>]
    /\ ip_idx = [p \in Procs |-> 0]
    /\ stats = [p \in Procs |-> InitialStats]
    /\ processed_ips = [p \in Procs |-> {}]
    /\ cur = [p \in Procs |-> NoCall]
    /\ client = [p \in Procs |-> "None"]
    /\ db = store
    /\ exit_code = [p \in Procs |-> -1]
    /\ path = [p \in Procs |-> "none"]
    /\ store_calls = [p \in Procs |-> [ip \in ScanWords |-> 0]]
    /\ dup_by_ip = [p \in Procs |-> [ip \in ScanWords |-> 0]]
    /\ result_log = [p \in Procs |-> [ip \in ScanWords |-> NoResult]]
    /\ close_calls = [p \in Procs |-> 0]
    /\ statistics_out = [p \in Procs |-> <<>>]
    /\ db0 = store

InitWith(files, store, pcs) ==
    /\ InitScan(files, store, pcs)
    /\ call = NoPureCall

\* One run of main() on any file, against any store earlier runs can have left.
Init ==
    \E f \in Files, S \in SUBSET ScanIPs :
        InitWith([p \in Procs |-> IF p = 1 THEN f ELSE <<>>], StoreOf(S),
                 [p \in Procs |-> IF p = 1 THEN "idle" ELSE "absent"])

\* NumScans runs of main() on the same file, one after the other.
InitSeq ==
    \E f \in SeqFiles, S \in SUBSET ScanIPs :
        InitWith([p \in Procs |-> f], StoreOf(S),
                 [p \in Procs |-> IF p = 1 THEN "idle" ELSE "waiting"])

\* NumScans runs of main() on the same file, at the same time, against a store
\* that is empty or holds the public address.
InitConc ==
    \E f \in ConcFiles, S \in {{}, {IPPublic}} :
        InitWith([p \in Procs |-> f], StoreOf(S), [p \in Procs |-> "idle"])

\* ------------------------------------------------------------------ main()
\* Run p is at the head of main()'s try block.
CanStart(p) ==
    \/ pc[p] = "idle"
    \/ pc[p] = "waiting" /\ \A q \in Procs : q < p => pc[q] = "exited"

\* A slip in main(): no finally clause, close_connection is never called.
CloseCountForgotten(n) == n

\* The finally clause calls close_connection once.
CloseCount(n) == n + 1

\* close_connection on self.client: client.close() if self.client is set.
close_connection(c) == IF c = "None" THEN "None" ELSE "closed"

\* Control leaves the try block with the exit status decided (sys.exit(1), or
\* the end of main() after a normal end or a KeyboardInterrupt); the finally
\* clause calls close_connection on the client c, and the process leaves.
Leave(p, code, how, c) ==
    /\ pc' = [pc EXCEPT ![p] = "exited"]
    /\ exit_code' = [exit_code EXCEPT ![p] = code]
    /\ path' = [path EXCEPT ![p] = how]
    /\ close_calls' = [close_calls EXCEPT ![p] = CloseCount(@)]
    /\ client' = [client EXCEPT ![p] = close_connection(c)]

\* connect_to_mongodb returns True.
ConnectReady(p) ==
    /\ CanStart(p)
    /\ client' = [client EXCEPT ![p] = "created"]
    /\ pc' = [pc EXCEPT ![p] = "process"]
    /\ UNCHANGED <<file, line_num, ips_in_line, ip_idx, stats, processed_ips, cur, db, exit_code,
                   path, store_calls, dup_by_ip, result_log, close_calls, statistics_out,
                   db0, call>>

\* A slip in main(): no sys.exit(1) after a failed connect, so main() goes on
\* to process_log_file.
ConnectFailNoExit(p) ==
    /\ CanStart(p)
    /\ \E made \in BOOLEAN :
          client' = [client EXCEPT ![p] = IF made THEN "created" ELSE "None"]
    /\ pc' = [pc EXCEPT ![p] = "process"]
    /\ UNCHANGED <<file, line_num, ips_in_line, ip_idx, stats, processed_ips, cur, db, exit_code,
                   path, store_calls, dup_by_ip, result_log, close_calls, statistics_out,
                   db0, call>>

\* connect_to_mongodb returns False (MongoClient() raised and self.client is
\* still None, or the ping raised with self.client set); main() calls sys.exit(1).
ConnectFail(p) ==
    /\ CanStart(p)
    /\ \E made \in BOOLEAN :
          Leave(p, 1, "connect_failed", IF made THEN "created" ELSE "None")
    /\ UNCHANGED <<file, line_num, ips_in_line, ip_idx, stats, processed_ips, cur, db,
                   store_calls, dup_by_ip, result_log, statistics_out, db0, call>>

\* The report print_statistics emits; the two counts and the math check are
\* logged only if count_documents does not raise.
Report(st, counts_ok) ==
    [stats |-> st,
     counts_ok |-> counts_ok,
     public_count |-> IF counts_ok THEN count_documents(db["public_ips"]) ELSE 0,
     private_count |-> IF counts_ok THEN count_documents(db["private_ips"]) ELSE 0,
     math_check |-> st["unique_public_ips_stored"] + st["unique_private_ips_stored"]
                    + st["duplicate_ips_skipped"],
     should_equal |-> st["total_ips_found"] - st["within_file_duplicates"]]

\* A slip in main(): print_statistics called whatever process_log_file returned.
PrintsStatisticsAlways(success) == TRUE

\* main(): "if success: processor.print_statistics()".
PrintsStatistics(success) == success

\* A slip in main(): print_statistics is called before the test on success.
ScanFailedReports(p, how) ==
    /\ statistics_out' = [statistics_out EXCEPT ![p] = Append(@, Report(stats[p], TRUE))]
    /\ Leave(p, 1, how, client[p])

\* A slip in main(): the else branch logs the failure without sys.exit(1).
ScanFailedNoExit(p, how) ==
    /\ statistics_out' = statistics_out
    /\ Leave(p, 0, how, client[p])

\* process_log_file returned False: main() logs the failure and calls
\* sys.exit(1); print_statistics is not called.
ScanFailed(p, how) ==
    /\ statistics_out' = [statistics_out EXCEPT
                            ![p] = IF PrintsStatistics(FALSE)
                                   THEN Append(@, Report(stats[p], TRUE)) ELSE @]
    /\ Leave(p, 1, how, client[p])

\* process_log_file: os.path.exists is False; return False; sys.exit(1).
FileMissing(p) ==
    /\ pc[p] = "process"
    /\ ScanFailed(p, "file_missing")
    /\ UNCHANGED <<file, line_num, ips_in_line, ip_idx, stats, processed_ips, cur, db,
                   store_calls, dup_by_ip, result_log, db0, call>>

\* process_log_file: open() raises; the except clause returns False; sys.exit(1).
OpenFail(p) ==
    /\ pc[p] = "process"
    /\ ScanFailed(p, "open_failed")
    /\ UNCHANGED <<file, line_num, ips_in_line, ip_idx, stats, processed_ips, cur, db,
                   store_calls, dup_by_ip, result_log, db0, call>>

\* process_log_file: the file is open, processed_ips = set().
OpenOk(p) ==
    /\ pc[p] = "process"
    /\ pc' = [pc EXCEPT ![p] = "read"]
    /\ processed_ips' = [processed_ips EXCEPT ![p] = {}]
    /\ UNCHANGED <<file, line_num, ips_in_line, ip_idx, stats, cur, client, db, exit_code, path,
                   store_calls, dup_by_ip, result_log, close_calls, statistics_out,
                   db0, call>>

\* Where the loops go once the inner loop has taken k of the line's addresses.
LoopHead(ips, k) == IF k >= Len(ips) THEN "read" ELSE "ip"

\* The for loop reads the next line: total_lines_processed += 1 and
\* ips_in_line = extract_ips_from_line(line).
ReadLine(p) ==
    /\ pc[p] = "read"
    /\ line_num[p] < Len(file[p])
    /\ line_num' = [line_num EXCEPT ![p] = @ + 1]
    /\ stats' = [stats EXCEPT ![p] = Bump(@, "total_lines_processed")]
    /\ ips_in_line' = [ips_in_line EXCEPT
                         ![p] = extract_ips_from_line(file[p][line_num[p] + 1])]
    /\ ip_idx' = [ip_idx EXCEPT ![p] = 0]
    /\ pc' = [pc EXCEPT ![p] = LoopHead(ips_in_line'[p], 0)]
    /\ UNCHANGED <<file, processed_ips, cur, client, db, exit_code, path, store_calls,
                   dup_by_ip, result_log, close_calls, statistics_out, db0, call>>

\* The for loop meets the end of the file: process_log_file returns True.
ReadEOF(p) ==
    /\ pc[p] = "read"
    /\ line_num[p] = Len(file[p])
    /\ pc' = [pc EXCEPT ![p] = "report"]
    /\ UNCHANGED <<file, line_num, ips_in_line, ip_idx, stats, processed_ips, cur, client, db,
                   exit_code, path, store_calls, dup_by_ip, result_log, close_calls,
                   statistics_out, db0, call>>

\* Reading raises (an I/O error): the except clause of process_log_file returns
\* False and main() calls sys.exit(1) without print_statistics.
ReadError(p) ==
    /\ pc[p] = "read"
    /\ ScanFailed(p, "read_error")
    /\ UNCHANGED <<file, line_num, ips_in_line, ip_idx, stats, processed_ips, cur, db,
                   store_calls, dup_by_ip, result_log, db0, call>>

\* A slip in the duplicate branch: "continue" without the increment of
\* within_file_duplicates.
DuplicateIpUncounted(p) ==
    /\ pc[p] = "ip"
    /\ LET ip == ips_in_line[p][ip_idx[p] + 1]
       IN  /\ ip \in processed_ips[p]
           /\ stats' = [stats EXCEPT ![p] = Bump(@, "total_ips_found")]
           /\ dup_by_ip' = [dup_by_ip EXCEPT ![p][ip] = @ + 1]
    /\ ip_idx' = [ip_idx EXCEPT ![p] = @ + 1]
    /\ pc' = [pc EXCEPT ![p] = LoopHead(ips_in_line[p], ip_idx'[p])]
    /\ UNCHANGED <<file, line_num, ips_in_line, processed_ips, cur, client, db, exit_code,
                   path, store_calls, result_log, close_calls, statistics_out, db0, call>>

\* for ip in ips_in_line, ip already in processed_ips: counted, skipped.
DuplicateIp(p) ==
    /\ pc[p] = "ip"
    /\ LET ip == ips_in_line[p][ip_idx[p] + 1]
       IN  /\ ip \in processed_ips[p]
           /\ stats' = [stats EXCEPT ![p] =
                           Bump(Bump(@, "total_ips_found"), "within_file_duplicates")]
           /\ dup_by_ip' = [dup_by_ip EXCEPT ![p][ip] = @ + 1]
    /\ ip_idx' = [ip_idx EXCEPT ![p] = @ + 1]
    /\ pc' = [pc EXCEPT ![p] = LoopHead(ips_in_line[p], ip_idx'[p])]
    /\ UNCHANGED <<file, line_num, ips_in_line, processed_ips, cur, client, db, exit_code,
                   path, store_calls, result_log, close_calls, statistics_out, db0, call>>

\* for ip in ips_in_line, ip not in processed_ips: counted, added to the set,
\* classified, and store_ip_in_mongodb is called.
NewIp(p) ==
    /\ pc[p] = "ip"
    /\ LET ip == ips_in_line[p][ip_idx[p] + 1]
       IN  /\ ip \notin processed_ips[p]
           /\ stats' = [stats EXCEPT ![p] = Bump(@, "total_ips_found")]
           /\ processed_ips' = [processed_ips EXCEPT ![p] = MarkSeen(@, ip)]
           /\ cur' = [cur EXCEPT ![p] =
                         [ip |-> ip, is_private |-> is_private_ip(ip), success |-> FALSE]]
           /\ store_calls' = [store_calls EXCEPT ![p][ip] = @ + 1]
    /\ ip_idx' = [ip_idx EXCEPT ![p] = @ + 1]
    /\ pc' = [pc EXCEPT ![p] = "update_find"]
    /\ UNCHANGED <<file, line_num, ips_in_line, client, db, exit_code, path, dup_by_ip,
                   result_log, close_calls, statistics_out, db0, call>>

\* store_ip_in_mongodb returns: success is set and the outcome is logged.
Return(p, success, outcome) ==
    /\ cur' = [cur EXCEPT ![p].success = success]
    /\ result_log' = [result_log EXCEPT
                        ![p][cur[p].ip] = [returned |-> success, outcome |-> outcome]]
    /\ pc' = [pc EXCEPT ![p] = "count"]

\* A variant of the failure path: the address is discarded from processed_ips
\* when the store call raised, so that a later occurrence retries it.
StoreErrorRollsBack(p) ==
    /\ pc[p] = "update_find"
    /\ Return(p, FALSE, "StoreError")
    /\ processed_ips' = [processed_ips EXCEPT ![p] = @ \ {cur[p].ip}]
    /\ UNCHANGED <<file, line_num, ips_in_line, ip_idx, stats, client, db,
                   exit_code, path, store_calls, dup_by_ip, close_calls, statistics_out,
                   db0, call>>

\* update_one raises (transport or storage failure, nothing written): the
\* except clause of store_ip_in_mongodb returns False.
StoreError(p) ==
    /\ pc[p] = "update_find"
    /\ Return(p, FALSE, "StoreError")
    /\ UNCHANGED <<file, line_num, ips_in_line, ip_idx, stats, processed_ips, client, db,
                   exit_code, path, store_calls, dup_by_ip, close_calls, statistics_out,
                   db0, call>>

\* A slip in the test of the result: result.acknowledged in place of
\* result.upserted_id, which is True for a match as well.
UpdateMatchedTestsAcknowledged(p) ==
    /\ pc[p] = "update_find"
    /\ Matches(db[Collection(cur[p].is_private)], cur[p].ip)
    /\ Return(p, TRUE, "AlreadyExists")
    /\ UNCHANGED <<file, line_num, ips_in_line, ip_idx, stats, processed_ips, client, db,
                   exit_code, path, store_calls, dup_by_ip, close_calls, statistics_out,
                   db0, call>>

\* update_one finds a document with this ip: nothing is written
\* ($setOnInsert), upserted_id is None, store_ip_in_mongodb returns False.
UpdateMatched(p) ==
    /\ pc[p] = "update_find"
    /\ Matches(db[Collection(cur[p].is_private)], cur[p].ip)
    /\ Return(p, FALSE, "AlreadyExists")
    /\ UNCHANGED <<file, line_num, ips_in_line, ip_idx, stats, processed_ips, client, db,
                   exit_code, path, store_calls, dup_by_ip, close_calls, statistics_out,
                   db0, call>>

\* update_one finds no document with this ip and goes on to insert one.
UpdateNotMatched(p) ==
    /\ pc[p] = "update_find"
    /\ ~Matches(db[Collection(cur[p].is_private)], cur[p].ip)
    /\ pc' = [pc EXCEPT ![p] = "update_insert"]
    /\ UNCHANGED <<file, line_num, ips_in_line, ip_idx, stats, processed_ips, cur, client, db,
                   exit_code, path, store_calls, dup_by_ip, result_log, close_calls,
                   statistics_out, db0, call>>

\* A slip in the test of the result: result.modified_count in place of
\* result.upserted_id, which is 0 for an upsert that inserted.
UpdateInsertTestsModified(p) ==
    /\ pc[p] = "update_insert"
    /\ LET name == Collection(cur[p].is_private)
       IN  IF UniqueIndex /\ HasKey(db[name], cur[p].ip)
           THEN /\ Return(p, FALSE, "DuplicateKey")
                /\ db' = db
           ELSE /\ Return(p, FALSE, "Inserted")
                /\ db' = [db EXCEPT ![name] =
                             @ (+) SetToBag({Document(cur[p].ip, cur[p].is_private)})]
    /\ UNCHANGED <<file, line_num, ips_in_line, ip_idx, stats, processed_ips, client, exit_code,
                   path, store_calls, dup_by_ip, close_calls, statistics_out, db0, call>>

\* The insert half of the upsert.  Under the unique index an insert that
\* meets a document written meanwhile raises DuplicateKeyError, which the
\* except clause turns into False; otherwise the document is inserted,
\* upserted_id is set and store_ip_in_mongodb returns True.
UpdateInsert(p) ==
    /\ pc[p] = "update_insert"
    /\ LET name == Collection(cur[p].is_private)
       IN  IF UniqueIndex /\ HasKey(db[name], cur[p].ip)
           THEN /\ Return(p, FALSE, "DuplicateKey")
                /\ db' = db
           ELSE /\ Return(p, TRUE, "Inserted")
                /\ db' = [db EXCEPT ![name] =
                             @ (+) SetToBag({Document(cur[p].ip, cur[p].is_private)})]
    /\ UNCHANGED <<file, line_num, ips_in_line, ip_idx, stats, processed_ips, client, exit_code,
                   path, store_calls, dup_by_ip, close_calls, statistics_out, db0, call>>

\* Back in process_log_file: the outcome is counted and the loop goes on.
Count(p) ==
    /\ pc[p] = "count"
    /\ stats' = [stats EXCEPT ![p] = CountOutcome(@, cur[p].success, cur[p].is_private)]
    /\ pc' = [pc EXCEPT ![p] = LoopHead(ips_in_line[p], ip_idx[p])]
    /\ UNCHANGED <<file, line_num, ips_in_line, ip_idx, processed_ips, cur, client, db,
                   exit_code, path, store_calls, dup_by_ip, result_log, close_calls,
                   statistics_out, db0, call>>

\* main(): success is True; print_statistics, then the end of the try block.
PrintStatistics(p) ==
    /\ pc[p] = "report"
    /\ PrintsStatistics(TRUE)
    /\ \E counts_ok \in BOOLEAN :
          statistics_out' = [statistics_out EXCEPT
                               ![p] = Append(@, Report(stats[p], counts_ok))]
    /\ Leave(p, 0, "completed", client[p])
    /\ UNCHANGED <<file, line_num, ips_in_line, ip_idx, stats, processed_ips, cur, db,
                   store_calls, dup_by_ip, result_log, db0, call>>

\* The control points inside main()'s try block.
InTry == {"process", "read", "ip", "update_find", "update_insert", "count", "report"}

\* KeyboardInterrupt inside the try block: logged, and main() goes on to the
\* finally clause and returns normally (exit status 0).
Interrupt(p) ==
    /\ CanStart(p) \/ pc[p] \in InTry
    /\ Leave(p, 0, "interrupted", client[p])
    /\ UNCHANGED <<file, line_num, ips_in_line, ip_idx, stats, processed_ips, cur, db,
                   store_calls, dup_by_ip, result_log, statistics_out,
                   db0, call>>

Next ==
    \E p \in Procs :
        \/ ConnectReady(p)
        \/ ConnectFail(p)
        \/ FileMissing(p)
        \/ OpenFail(p)
        \/ OpenOk(p)
        \/ ReadLine(p)
        \/ ReadEOF(p)
        \/ ReadError(p)
        \/ DuplicateIp(p)
        \/ NewIp(p)
        \/ StoreError(p)
        \/ UpdateMatched(p)
        \/ UpdateNotMatched(p)
        \/ UpdateInsert(p)
        \/ Count(p)
        \/ PrintStatistics(p)
        \/ Interrupt(p)

Spec == Init /\ [][Next]_vars

\* Sequential and concurrent runs against one store.
SpecSeq == InitSeq /\ [][Next]_vars
SpecConc == InitConc /\ [][Next]_vars

\* One run of main() on a one-line file, against any store earlier runs can
\* have left.
InitFair ==
    \E f \in SeqFiles, S \in SUBSET ScanIPs :
        InitWith([p \in Procs |-> IF p = 1 THEN f ELSE <<>>], StoreOf(S),
                 [p \in Procs |-> IF p = 1 THEN "idle" ELSE "absent"])

\* Every step of main() returns or raises in finite time (the store calls
\* honour serverSelectionTimeoutMS, the file is finite).
FairSpec == InitFair /\ [][Next]_vars /\ WF_vars(Next)

\* --------------------------------------------------------- classification
\* Octet values around the edges of the three private ranges.
FirstOctets == {0, 9, 10, 11, 171, 172, 173, 191, 192, 193, 255}
SecondOctets == {0, 15, 16, 17, 31, 32, 167, 168, 169, 255}
LowOctets == {0, 255}

\* The valid addresses is_private_ip is applied to.
ClassifyInputs ==
    {Dotted(a, b, c, d) : a \in FirstOctets, b \in SecondOctets, c \in LowOctets,
                          d \in LowOctets}

\* No run of main(); one application of is_private_ip to a valid address.
InitPure ==
    /\ InitScan([p \in Procs |-> <<>>], StoreOf({}), [p \in Procs |-> "absent"])
    /\ \E ip \in ClassifyInputs :
          call = [fn |-> "is_private_ip", arg |-> ip, ret |-> FALSE, done |-> FALSE]

\* is_private_ip(arg) returns.
CallIsPrivate ==
    /\ call.fn = "is_private_ip"
    /\ ~call.done
    /\ call' = [call EXCEPT !.ret = is_private_ip(call.arg), !.done = TRUE]
    /\ UNCHANGED scan_vars

NextPure == CallIsPrivate

SpecPure == InitPure /\ [][NextPure]_vars

\* ================================================================= claims
\* The three outcome counters of a run, added up.
Outcomes(st) ==
    st["unique_public_ips_stored"] + st["unique_private_ips_stored"]
    + st["duplicate_ips_skipped"]

\* process_log_file of run p met the end of the file and returned True.
ScanComplete(p) == pc[p] = "report" \/ path[p] = "completed"

\* C1: after any complete scan (process_log_file returned True), new public +
\* new private + store duplicates skipped equals addresses found minus
\* within-file duplicates, whatever the file, the store and the store failures.
C1_CrossCheck ==
    \A p \in Procs :
        ScanComplete(p) =>
            Outcomes(stats[p])
                = stats[p]["total_ips_found"] - stats[p]["within_file_duplicates"]

\* A complete scan that met a store failure, an address already stored, a new
\* address and a within-file duplicate.
C1_Witness ==
    \E p \in Procs :
        /\ path[p] = "completed"
        /\ \E a \in ScanWords : result_log[p][a].outcome = "StoreError"
        /\ stats[p]["within_file_duplicates"] >= 1
        /\ stats[p]["total_ips_found"] >= 3

\* The number of times a occurs in the sequence seq.
Occurs(seq, a) == Cardinality({i \in 1..Len(seq) : seq[i] = a})

\* The valid addresses of lines 1..n of run p's file, in order.
RECURSIVE AddressesInLines(_, _)
AddressesInLines(p, n) ==
    IF n = 0 THEN <<>>
    ELSE AddressesInLines(p, n - 1) \o extract_ips_from_line(file[p][n])

\* The addresses that run p's loops have taken so far: all of the lines before
\* the current one, and the first ip_idx addresses of this one.
Taken(p) ==
    IF line_num[p] = 0 THEN <<>>
    ELSE AddressesInLines(p, line_num[p] - 1) \o SubSeq(ips_in_line[p], 1, ip_idx[p])

\* The sum of f over the set S.
RECURSIVE SumOver(_, _)
SumOver(f, S) ==
    IF S = {} THEN 0
    ELSE LET x == CHOOSE y \in S : TRUE
         IN  f[x] + SumOver(f, S \ {x})

\* C2: within one scan an address that has occurred N >= 1 times so far (on one
\* line or on several) has had exactly one store_ip_in_mongodb call, made when
\* its first occurrence was taken, and N-1 within-file duplicates counted on
\* its account; an address that has not occurred has had none; and
\* within_file_duplicates is the sum of these per-address counts.  At the end of
\* the file N is the number of occurrences in the whole file.
C2_WithinFileDedup ==
    \A p \in Procs :
        LET taken == Taken(p)
            whole == AddressesInLines(p, Len(file[p]))
        IN  /\ \A a \in ScanWords :
                  LET n == Occurs(taken, a)
                  IN  /\ n = 0 => store_calls[p][a] = 0 /\ dup_by_ip[p][a] = 0
                      /\ n >= 1 => store_calls[p][a] = 1 /\ dup_by_ip[p][a] = n - 1
            /\ ScanComplete(p) => taken = whole
            /\ stats[p]["within_file_duplicates"] = SumOver(dup_by_ip[p], ScanWords)

\* A complete scan of a file that holds one address three times, on two lines.
C2_Witness ==
    \E p \in Procs, a \in ScanWords :
        /\ path[p] = "completed"
        /\ Len(file[p]) = 2
        /\ Occurs(extract_ips_from_line(file[p][1]), a) >= 1
        /\ Occurs(extract_ips_from_line(file[p][2]), a) >= 1
        /\ Occurs(AddressesInLines(p, 2), a) = 3
        /\ store_calls[p][a] = 1
        /\ dup_by_ip[p][a] = 2

\* The records of the store d, in either collection, with the address a.
Records(d, a) == CountOf(d["public_ips"], a) + CountOf(d["private_ips"], a)

\* update_one of run p for a ran to its end: it did not raise a transport or
\* storage failure.
Answered(p, a) == result_log[p][a].outcome \in {"Inserted", "AlreadyExists", "DuplicateKey"}

\* C3: runs that follow one another call store_ip_in_mongodb with the same
\* address one after the other.  Starting from a store without the address,
\* the first call that the store answers inserts the record and returns True,
\* every later answered call finds it (AlreadyExists) and returns False, and
\* the collection holds exactly one record for the address.
C3_InsertTwice ==
    \A a \in ScanWords : \A p \in Procs :
        (/\ Records(db0, a) = 0
         /\ Answered(p, a)
         /\ \A r \in Procs : r < p => ~Answered(r, a))
        =>
        /\ result_log[p][a] = [returned |-> TRUE, outcome |-> "Inserted"]
        /\ \A q \in Procs :
              (p < q /\ Answered(q, a)) =>
                  result_log[q][a] = [returned |-> FALSE, outcome |-> "AlreadyExists"]
        /\ Records(db, a) = 1

\* Two runs, one after the other, have each called the store with an address
\* the store did not hold.
C3_Witness ==
    \E a \in ScanWords :
        /\ Records(db0, a) = 0
        /\ result_log[1][a].outcome = "Inserted"
        /\ result_log[2][a].outcome = "AlreadyExists"
        /\ pc[1] = "exited"

\* The number of runs whose store call for a returned True.
InsertedReports(a) == Cardinality({p \in Procs : result_log[p][a].returned})

\* new_public_stored + new_private_stored, over all runs.
RECURSIVE NewStoredUpTo(_)
NewStoredUpTo(n) ==
    IF n = 0 THEN 0
    ELSE NewStoredUpTo(n - 1) + stats[n]["unique_public_ips_stored"]
         + stats[n]["unique_private_ips_stored"]

\* The number of records of the store d.
Size(d) == count_documents(d["public_ips"]) + count_documents(d["private_ips"])

\* No run stands, or was interrupted, between a store call's return and the
\* counting of its outcome.
AllCounted == \A p \in Procs : pc[p] # "count" /\ path[p] # "interrupted"

\* C4: with concurrent scans whose store calls for the same address interleave
\* in any order, the store never holds more than one record for an address; the
\* number of calls that report Inserted for an address is the number of records
\* added for it, so it is exactly one, with exactly one record, once the store
\* has answered a call for an address it did not hold; and the sum over all
\* scans of new public + new private equals the number of records added to
\* the store (once every returned outcome has been counted).
C4_ConcurrentInsert ==
    /\ \A a \in ScanWords :
          /\ Records(db, a) <= 1
          /\ InsertedReports(a) = Records(db, a) - Records(db0, a)
          /\ (Records(db0, a) = 0 /\ \E p \in Procs : Answered(p, a)) =>
                (Records(db, a) = 1 /\ InsertedReports(a) = 1)
    /\ AllCounted => NewStoredUpTo(NumScans) = Size(db) - Size(db0)

\* Two scans raced on one address: both found it absent, one inserted it and
\* the other's insert met the unique index.
C4_Witness ==
    \E p, q \in Procs, a \in ScanWords :
        /\ result_log[p][a].outcome = "Inserted"
        /\ result_log[q][a].outcome = "DuplicateKey"
        /\ \A r \in Procs : pc[r] = "exited" /\ path[r] = "completed"

\* The first two octets of a stored address lie in 10/8, 172.16/12 or 192.168/16.
PrivateByOctets(ip) ==
    \/ int(ip[1]) = 10
    \/ int(ip[1]) = 172 /\ int(ip[2]) \in 16..31
    \/ int(ip[1]) = 192 /\ int(ip[2]) = 168

\* The documents of a collection, as a set.
DocsOf(name) == BagToSet(db[name])

\* C5: in every reachable state of the store each collection holds at most one
\* record per address, no address is in both collections, every record of
\* private_ips is an address in 10.0.0.0/8, 172.16.0.0/12 or 192.168.0.0/16
\* and every record of public_ips is an address outside all three.
C5_StorePartition ==
    /\ \A name \in {"public_ips", "private_ips"} :
          \A d \in DocsOf(name) : CountOf(db[name], d.ip) = 1
    /\ \A d \in DocsOf("public_ips"), e \in DocsOf("private_ips") : d.ip # e.ip
    /\ \A d \in DocsOf("private_ips") :
          /\ \A i \in 1..4 : int(d.ip[i]) \in 0..255
          /\ PrivateByOctets(d.ip)
    /\ \A d \in DocsOf("public_ips") :
          /\ \A i \in 1..4 : int(d.ip[i]) \in 0..255
          /\ ~PrivateByOctets(d.ip)

\* Runs that started from an empty store have inserted a private and a public
\* address, and a later run has met both again.
C5_Witness ==
    /\ Size(db0) = 0
    /\ DocsOf("private_ips") # {}
    /\ DocsOf("public_ips") # {}
    /\ \E p \in Procs, a \in ScanWords : result_log[p][a].outcome = "AlreadyExists"

\* C6: for every valid IPv4 address is_private_ip returns a Boolean (the
\* classification is total), and it returns True exactly when the first octet
\* is 10, or the first is 172 and the second is in 16..31, or the first two
\* are 192.168; every other address is public.
C6_Classification ==
    (call.fn = "is_private_ip" /\ call.done) =>
        /\ call.ret \in BOOLEAN
        /\ call.ret <=> PrivateByOctets(call.arg)

\* is_private_ip has returned True for an address of 172.16.0.0/12 whose
\* second octet is not 16, and False for 172.32.x.x.
C6_Witness ==
    /\ call.fn = "is_private_ip"
    /\ call.done
    /\ int(call.arg[1]) = 172
    /\ \/ int(call.arg[2]) = 31 /\ call.ret
       \/ int(call.arg[2]) = 32 /\ ~call.ret

\* All four groups of a candidate have values in 0..255.
OctetsInRange(c) == \A i \in 1..4 : int(c[i]) \in 0..255

\* All four groups of a candidate have values in 0..255 and are written
\* without a leading zero ("0" itself is allowed).
OctetsCanonical(c) ==
    \A i \in 1..4 : int(c[i]) \in 0..255 /\ (Len(c[i]) > 1 => c[i][1] # 0)

\* The candidates of the line run p read last.
CandidatesOfLine(p) == findall(file[p][line_num[p]])

\* The candidates of lines 1..n of run p's file, in order.
RECURSIVE CandidatesInLines(_, _)
CandidatesInLines(p, n) ==
    IF n = 0 THEN <<>>
    ELSE CandidatesInLines(p, n - 1) \o findall(file[p][n])

\* The number of candidates of lines 1..n of run p's file that are canonical.
KeptInLines(p, n) == Len(SelectSeq(CandidatesInLines(p, n), OctetsCanonical))

\* The statement of C7 as made: extract_ips_from_line returns exactly the
\* candidates whose four octets are all in 0..255, in order, repeats kept.
C7_InRangeKept ==
    \A p \in Procs :
        line_num[p] >= 1 => ips_in_line[p] = SelectSeq(CandidatesOfLine(p), OctetsInRange)

\* C7 (amended): for every line extract_ips_from_line returns exactly the
\* candidates whose four octets are all in 0..255 and written without leading
\* zeros, in their order in the line and with repeats kept; any other
\* candidate never appears in the result, is never handed to the store and
\* changes no counter: total_ips_found counts the kept candidates only.
C7_CanonicalKept ==
    \A p \in Procs :
        /\ line_num[p] >= 1 =>
              /\ ips_in_line[p] = SelectSeq(CandidatesOfLine(p), OctetsCanonical)
              /\ stats[p]["total_ips_found"]
                    = KeptInLines(p, line_num[p] - 1) + ip_idx[p]
        /\ ScanComplete(p) =>
              stats[p]["total_ips_found"] = KeptInLines(p, Len(file[p]))
        /\ \A c \in ScanWords :
              ~OctetsCanonical(c) =>
                  /\ store_calls[p][c] = 0
                  /\ dup_by_ip[p][c] = 0
                  /\ c \notin processed_ips[p]

\* A complete scan of a line that holds a candidate with an octet above 255
\* between two occurrences of one valid address.
C7_Witness ==
    \E p \in Procs :
        /\ path[p] = "completed"
        /\ Len(file[p]) = 1
        /\ file[p][1] = <<IPPrivate, IPBad, IPPrivate>>
        /\ ips_in_line[p] = <<IPPrivate, IPPrivate>>
        /\ stats[p]["total_ips_found"] = 2

\* C8: every run of main() eventually ends; a run that has left has called
\* close_connection exactly once, on every exit path (connect failure, missing
\* or unreadable file, read error, interrupt, normal end), and a run that has
\* not left has not called it; after the call the run makes no store call and
\* prints (counts) nothing.
C8_CloseOnce ==
    /\ <>(\A p \in Procs : pc[p] \in {"exited", "absent"})
    /\ [](\A p \in Procs :
             /\ pc[p] = "exited" => close_calls[p] = 1 /\ path[p] # "none"
             /\ pc[p] # "exited" => close_calls[p] = 0)
    /\ [][\A p \in Procs :
             close_calls[p] >= 1 =>
                 /\ pc'[p] = "exited"
                 /\ store_calls'[p] = store_calls[p]
                 /\ statistics_out'[p] = statistics_out[p]
                 /\ close_calls'[p] = close_calls[p]]_vars

\* A run that stored an address, then met a read error, has left with its
\* client closed by the one call of close_connection.
C8_Witness ==
    \E p \in Procs :
        /\ pc[p] = "exited"
        /\ path[p] = "read_error"
        /\ \E a \in ScanWords : result_log[p][a].outcome = "Inserted"
        /\ close_calls[p] = 1
        /\ client[p] = "closed"

\* C9: when the store call for an address failed with a StoreError, the address
\* is counted in none of the three outcome counters: the step that follows the
\* call leaves new public, new private and store duplicates skipped unchanged.
C9_StoreErrorUncounted ==
    [][\A p \in Procs :
          (pc[p] = "count" /\ result_log[p][cur[p].ip].outcome = "StoreError") =>
              /\ stats'[p]["unique_public_ips_stored"] = stats[p]["unique_public_ips_stored"]
              /\ stats'[p]["unique_private_ips_stored"] = stats[p]["unique_private_ips_stored"]
              /\ stats'[p]["duplicate_ips_skipped"] = stats[p]["duplicate_ips_skipped"]]_vars

\* The statement of C10 as made: a run that ended on a read error left with a
\* nonzero status after print_statistics had reported the statistics.
C10_ReportedAfterReadError ==
    \A p \in Procs :
        path[p] = "read_error" => exit_code[p] # 0 /\ Len(statistics_out[p]) = 1

\* C10 (amended): a read error in the middle of a scan is fatal: the run ends
\* with exit status 1, its connection closed, and the statistics accumulated
\* up to the failure are not reported: print_statistics is not called.
C10_NoReportAfterReadError ==
    \A p \in Procs :
        path[p] = "read_error" =>
            /\ pc[p] = "exited"
            /\ exit_code[p] = 1
            /\ statistics_out[p] = <<>>
            /\ close_calls[p] = 1

\* A run met a read error after it had read a line and counted addresses.
C10_Witness ==
    \E p \in Procs :
        /\ path[p] = "read_error"
        /\ stats[p]["total_lines_processed"] >= 1
        /\ stats[p]["total_ips_found"] >= 2
        /\ line_num[p] < Len(file[p])
        /\ exit_code[p] = 1

\* Run p has made no file read, no store call and no report, and no counter
\* of it has changed.
Untouched(p) ==
    /\ line_num[p] = 0
    /\ ips_in_line[p] = <<>>
    /\ processed_ips[p] = {}
    /\ stats[p] = InitialStats
    /\ \A a \in ScanWords : store_calls[p][a] = 0 /\ result_log[p][a] = NoResult
    /\ statistics_out[p] = <<>>

\* C11: no store insert, no store count and no file read happens before
\* connect_to_mongodb has returned True: every step that reads a line, calls
\* the store, counts or reports is a step of a run whose connect returned True
\* and that is still inside main()'s try block, and a run without a client is
\* untouched.  A run whose connect returned False leaves at once with status 1:
\* it never opens the file, changes no counter and never writes the store.
C11_ConnectFirst ==
    /\ [](\A p \in Procs :
             /\ client[p] = "None" => Untouched(p)
             /\ path[p] = "connect_failed" =>
                   /\ pc[p] = "exited"
                   /\ exit_code[p] = 1
                   /\ Untouched(p)
                   /\ db = db0)
    /\ [][\A p \in Procs :
             (\/ line_num'[p] # line_num[p]
              \/ stats'[p] # stats[p]
              \/ store_calls'[p] # store_calls[p]
              \/ result_log'[p] # result_log[p]
              \/ statistics_out'[p] # statistics_out[p]
              \/ processed_ips'[p] # processed_ips[p]
              \/ pc'[p] \in {"read", "ip", "update_find", "update_insert", "count", "report"})
             => (client[p] = "created" /\ pc[p] \in InTry)]_vars
    /\ [][db' # db => \E p \in Procs : client[p] = "created" /\ pc[p] = "update_insert"]_vars

\* A run whose connect failed after the client was made has left; its file
\* holds an address the store does not hold.
C11_Witness ==
    \E p \in Procs :
        /\ path[p] = "connect_failed"
        /\ client[p] = "closed"
        /\ file[p] = << <<IPPublic>>, <<IPPrivate>> >>
        /\ Size(db) = 0

\* The ways a run fails that C12 names: the store unreachable at start, the
\* log file missing or not to be opened, an error while scanning.
FailurePaths == {"connect_failed", "file_missing", "open_failed", "read_error"}

\* C12: a run whose scan completed (process_log_file returned True and the
\* statistics were printed) leaves with exit status 0; a run that could not
\* connect, could not open the log file or met an error while scanning leaves
\* with a nonzero status.
C12_ExitCodes ==
    \A p \in Procs :
        /\ path[p] = "completed" => pc[p] = "exited" /\ exit_code[p] = 0
        /\ path[p] \in FailurePaths => pc[p] = "exited" /\ exit_code[p] = 1
        /\ pc[p] = "exited" <=> exit_code[p] \in {0, 1}
        /\ pc[p] = "exited" <=> path[p] # "none"

\* A run completed a scan that found an address and left with 0; the next run
\* failed and left with 1.
C12_Witness ==
    /\ path[1] = "completed"
    /\ exit_code[1] = 0
    /\ stats[1]["total_ips_found"] >= 1
    /\ path[2] \in FailurePaths
    /\ exit_code[2] = 1

\* Run p takes a step of its own that is not its leaving main().
Steps(p) == pc'[p] # pc[p] /\ pc'[p] # "exited"

\* C13: when the store call for the first occurrence of an address in a scan
\* meets a record for that address already in the store (left by an earlier
\* run or scan) and the store answers, the answer is AlreadyExists: the call
\* returns False and writes nothing, so the record stays as it was and stays
\* the only one; the counting step that follows adds one to
\* duplicate_ips_skipped and changes no other counter.
C13_AlreadyStored ==
    /\ [][\A p \in Procs :
             (/\ pc[p] = "update_find"
              /\ Steps(p)
              /\ Records(db, cur[p].ip) >= 1
              /\ result_log'[p][cur[p].ip].outcome # "StoreError")
             => /\ result_log'[p][cur[p].ip]
                      = [returned |-> FALSE, outcome |-> "AlreadyExists"]
                /\ store_calls[p][cur[p].ip] = 1
                /\ db' = db
                /\ stats' = stats]_vars
    /\ [][\A p \in Procs :
             (/\ pc[p] = "count"
              /\ Steps(p)
              /\ result_log[p][cur[p].ip].outcome = "AlreadyExists")
             => /\ stats'[p] = Bump(stats[p], "duplicate_ips_skipped")
                /\ db' = db]_vars
    /\ [](\A p \in Procs, a \in ScanWords :
             result_log[p][a].outcome = "AlreadyExists" =>
                 /\ Records(db, a) = 1
                 /\ Document(a, is_private_ip(a)) \in DocsOf(Collection(is_private_ip(a))))

\* A complete scan whose only address, on its first occurrence, met the record
\* an earlier scan had inserted: one store duplicate skipped, nothing new.
C13_Witness ==
    \E a \in ScanWords :
        /\ result_log[1][a].outcome = "Inserted"
        /\ result_log[2][a].outcome = "AlreadyExists"
        /\ path[2] = "completed"
        /\ stats[2]["duplicate_ips_skipped"] = 1
        /\ stats[2]["unique_public_ips_stored"] = 0
        /\ stats[2]["unique_private_ips_stored"] = 0
        /\ stats[2]["total_ips_found"] = 2
        /\ Records(db, a) = 1

\* C14: a run whose log file does not exist or cannot be opened fails without
\* scanning: it has read no line, every counter has its initial value, it has
\* made no store call and written nothing to the store, it has emitted no
\* statistics, and it has left with exit status 1.
C14_NoFileNoScan ==
    \A p \in Procs :
        path[p] \in {"file_missing", "open_failed"} =>
            /\ pc[p] = "exited"
            /\ exit_code[p] = 1
            /\ Untouched(p)
            /\ db = db0
            /\ client[p] = "closed"

\* A run connected, could not open its file, which holds addresses, and left.
C14_Witness ==
    \E p \in Procs :
        /\ path[p] = "open_failed"
        /\ Len(file[p]) = 2
        /\ AddressesInLines(p, 2) = <<IPPrivate, IPPublic, IPPrivate>>
        /\ exit_code[p] = 1

\* The store call of run p for the address a raised.
Failed(p, a) == result_log[p][a].outcome = "StoreError"

\* C15: a failed store call does not take the address out of processed_ips.
\* Once the call for an address has raised, the address stays in the set, its
\* one store call stays the only one and keeps its outcome, every later
\* occurrence of it in the scan is counted in total_ips_found and in
\* within_file_duplicates and in nothing else, and the scan writes no record
\* for it: the store holds for it what it held before the scan.
C15_NoRetryAfterStoreError ==
    /\ [](\A p \in Procs, a \in ScanWords :
             Failed(p, a) =>
                 /\ a \in processed_ips[p]
                 /\ store_calls[p][a] = 1
                 /\ dup_by_ip[p][a] = Occurs(Taken(p), a) - 1
                 /\ Records(db, a) = Records(db0, a))
    /\ [][\A p \in Procs, a \in ScanWords :
             Failed(p, a) =>
                 /\ result_log'[p][a] = result_log[p][a]
                 /\ store_calls'[p][a] = store_calls[p][a]
                 /\ (/\ pc[p] = "ip"
                     /\ ips_in_line[p][ip_idx[p] + 1] = a
                     /\ ip_idx'[p] # ip_idx[p])
                    => /\ stats'[p] = Bump(Bump(stats[p], "total_ips_found"),
                                           "within_file_duplicates")
                       /\ pc'[p] \in {"ip", "read"}
                       /\ db' = db]_vars

\* A complete scan in which the store call for an address the store did not
\* hold raised, and the address occurred twice more, on this line and the next.
C15_Witness ==
    \E p \in Procs, a \in ScanWords :
        /\ path[p] = "completed"
        /\ Failed(p, a)
        /\ Records(db0, a) = 0
        /\ Records(db, a) = 0
        /\ Len(file[p]) = 2
        /\ Occurs(extract_ips_from_line(file[p][2]), a) = 1
        /\ dup_by_ip[p][a] = 2
        /\ stats[p]["duplicate_ips_skipped"] = 1

\* The names of the six counters.
Counters == DOMAIN InitialStats

\* C16: no step of a run decreases any of its six counters or removes an
\* address from its processed_ips; each counter grows by at most one in a
\* step; and once process_log_file has returned True no later step (the
\* report, the close, an interrupt) changes any counter or the set.
C16_Monotone ==
    [][\A p \in Procs :
          /\ \A k \in Counters :
                stats'[p][k] \in {stats[p][k], stats[p][k] + 1}
          /\ processed_ips[p] \subseteq processed_ips'[p]
          /\ ScanComplete(p) =>
                /\ stats'[p] = stats[p]
                /\ processed_ips'[p] = processed_ips[p]]_vars

\* A complete scan that was reported and closed, with two addresses in the
\* set, a within-file duplicate and two lines counted.
C16_Witness ==
    \E p \in Procs :
        /\ path[p] = "completed"
        /\ Len(statistics_out[p]) = 1
        /\ close_calls[p] = 1
        /\ Cardinality(processed_ips[p]) = 2
        /\ stats[p]["total_lines_processed"] = 2
        /\ stats[p]["total_ips_found"] = 3
        /\ stats[p]["within_file_duplicates"] = 1
        /\ statistics_out[p][1].stats = stats[p]

\* Run p stands between the processing of two addresses: at the head of the
\* line loop or of the address loop, or past the end of the file.
BetweenAddresses(p) == pc[p] \in {"read", "ip", "report"}

\* C17: at every point of a scan between the processing of two addresses the
\* size of processed_ips equals total_ips_found - within_file_duplicates and
\* equals new public + new private + store duplicates skipped (the cross-check
\* holds at every such point); while a store call is under way or its outcome
\* is not yet counted, the set is one ahead of the three outcome counters.
C17_RunningCrossCheck ==
    \A p \in Procs :
        LET size == Cardinality(processed_ips[p])
            distinct == stats[p]["total_ips_found"] - stats[p]["within_file_duplicates"]
        IN  /\ BetweenAddresses(p) =>
                  /\ size = distinct
                  /\ size = Outcomes(stats[p])
            /\ pc[p] \in {"update_find", "update_insert", "count"} =>
                  /\ size = distinct
                  /\ size = Outcomes(stats[p]) + 1

\* A scan stands in the middle of its file, before the first address of the
\* second line, with two addresses in the set, one of them refused by the store.
C17_Witness ==
    \E p \in Procs :
        /\ pc[p] = "ip"
        /\ line_num[p] = 2
        /\ ip_idx[p] = 0
        /\ Cardinality(processed_ips[p]) = 2
        /\ \E a \in ScanWords : Failed(p, a)
        /\ stats[p]["total_ips_found"] = 2

\* The collection c of the store d holds every record that the collection c
\* of the store e holds, with the same content, as many times.
Keeps(d, e, c) == e[c] \sqsubseteq d[c]

\* C18: for a run with no other writer, whenever the run stands between two
\* addresses, and so after its scan, the public collection holds as many
\* records as before the run plus unique_public_ips_stored, and the private
\* collection as many as before plus unique_private_ips_stored; and no step
\* of the program removes or changes a record: every record of the store
\* before a step is in the store after it, and the store before the run is
\* contained in the store at every later time.
C18_CountsAddUp ==
    /\ [](\A p \in Procs :
             (BetweenAddresses(p) \/ path[p] = "completed") =>
                 /\ count_documents(db["public_ips"])
                       = count_documents(db0["public_ips"])
                         + stats[p]["unique_public_ips_stored"]
                 /\ count_documents(db["private_ips"])
                       = count_documents(db0["private_ips"])
                         + stats[p]["unique_private_ips_stored"])
    /\ [](\A c \in {"public_ips", "private_ips"} : Keeps(db, db0, c))
    /\ [][\A c \in {"public_ips", "private_ips"} : Keeps(db', db, c)]_vars

\* A complete, reported scan against a store that held the public address:
\* the private address was inserted, the public one was found, and the counts
\* of the report are one and one.
C18_Witness ==
    \E p \in Procs :
        /\ path[p] = "completed"
        /\ count_documents(db0["public_ips"]) = 1
        /\ count_documents(db0["private_ips"]) = 0
        /\ stats[p]["unique_private_ips_stored"] = 1
        /\ stats[p]["duplicate_ips_skipped"] = 1
        /\ statistics_out[p][1].counts_ok
        /\ statistics_out[p][1].public_count = 1
        /\ statistics_out[p][1].private_count = 1

\* Run p completed its scan and none of its store calls raised.
CleanScan(p) == path[p] = "completed" /\ \A a \in ScanWords : ~Failed(p, a)

\* The distinct valid addresses of run p's file.
DistinctAddresses(p) ==
    LET whole == AddressesInLines(p, Len(file[p]))
    IN  {whole[i] : i \in 1..Len(whole)}

\* C19: when a run has scanned a file to its end without a store failure, a
\* following run on the same file against the same store writes nothing (no
\* later step changes the store), and if it too completes without a store
\* failure it ends with unique_public_ips_stored = 0,
\* unique_private_ips_stored = 0 and duplicate_ips_skipped equal to the number
\* of distinct valid addresses of the file.
C19_RescanIdempotent ==
    /\ [](\A p \in Procs :
             (p > 1 /\ file[p] = file[p - 1] /\ CleanScan(p - 1) /\ CleanScan(p)) =>
                 /\ stats[p]["unique_public_ips_stored"] = 0
                 /\ stats[p]["unique_private_ips_stored"] = 0
                 /\ stats[p]["duplicate_ips_skipped"] = Cardinality(DistinctAddresses(p))
                 /\ \A a \in DistinctAddresses(p) :
                       /\ Records(db, a) = 1
                       /\ result_log[p][a].outcome = "AlreadyExists")
    /\ [][(\E p \in Procs : CleanScan(p)) => db' = db]_vars

\* Two runs, one after the other, completed a scan of a line with a private
\* and a public address against a store that was empty: the first inserted
\* both, the second skipped both.
C19_Witness ==
    /\ CleanScan(1)
    /\ CleanScan(2)
    /\ file[2] = << <<IPPrivate, IPPublic>> >>
    /\ Size(db0) = 0
    /\ Size(db) = 2
    /\ stats[1]["unique_public_ips_stored"] + stats[1]["unique_private_ips_stored"] = 2
    /\ stats[2]["duplicate_ips_skipped"] = 2

====
